---- MODULE Spec2Model ----
(***************************************************************************)
(* Model of api_reasearch/espn_res.py: the ESPN scoreboard exploration     *)
(* script.  main() runs fetch_nfl_scoreboard, save_raw_response,           *)
(* print_game_summary and inspect_data_structure in sequence; the last two *)
(* walk the fetched JSON document with defaulted lookups.                  *)
(*                                                                         *)
(* A JSON object is a function from key names to values, a JSON array a    *)
(* sequence.  Standard output is the sequence `out` of printed lines, each *)
(* a record whose `line` field names the print statement.  A date string   *)
(* is a sequence of lexical pieces (an ISO date-time body, the letter Z,   *)
(* an explicit +00:00 offset, or text that is no date).  Values that are   *)
(* present are of the type the endpoint documents (objects where the code  *)
(* calls .get, arrays where it indexes).                                   *)
(***************************************************************************)
EXTENDS Integers, Sequences, FiniteSets, TLC

\* Bounds of the explored inputs.
MaxEvents == 2
MaxCompetitors == 2

VARIABLES
    entry,   \* the function the run was started with
    pc,      \* position of the run
    data,    \* the value bound to `data`: [tag |-> "None"] or [tag |-> "dict", val |-> d]
    out,     \* standard output, one record per printed line
    idx,     \* loop index of print_game_summary (enumerate(events, 1)); 0 outside the loop
    node,    \* inspect_data_structure's current local (event, comp, competitor)
    trace,   \* calls and returns of the stages, in order
    exc      \* "none", or the exception that left the started function

vars == <<entry, pc, data, out, idx, node, trace, exc>>

----------------------------------------------------------------------------
\* Python mappings and their lookups.

EmptyDict == [k \in {} |-> k]

Has(d, k) == k \in DOMAIN d

\* dict.get(k, default)
Get(d, k, default) == IF k \in DOMAIN d THEN d[k] ELSE default

\* mutation: the guard tests the key only, `k in d`
HasNonEmpty_KeyOnly(d, k) == Has(d, k)

\* `k in d and d[k]` for a sequence-valued field
HasNonEmpty(d, k) == Has(d, k) /\ Len(d[k]) > 0

None == [tag |-> "None"]
Dict(d) == [tag |-> "dict", val |-> d]

\* `not data`
Falsy(x) == x.tag = "None" \/ DOMAIN x.val = {}

----------------------------------------------------------------------------
\* Date strings and datetime.fromisoformat / strftime.

Z == [t |-> "Z"]
Offset == [t |-> "+00:00"]
Iso(h, m) == [t |-> "iso", h |-> h, m |-> m]
NotADate == [t |-> "not-a-date"]
UnknownDate == <<[t |-> "Unknown date"]>>

\* date.replace('Z', '+00:00'): every Z of the string is substituted
ReplaceZ(s) == [i \in 1..Len(s) |-> IF s[i].t = "Z" THEN Offset ELSE s[i]]

\* datetime.fromisoformat accepts a date-time body with an optional offset
Parses(s) ==
    /\ Len(s) \in {1, 2}
    /\ s[1].t = "iso"
    /\ Len(s) = 2 => s[2].t = "+00:00"

\* dt.strftime('%Y-%m-%d %I:%M %p'): 12-hour clock of the parsed wall time
Strftime(dt) ==
    [t |-> "formatted",
     I |-> IF dt.h % 12 = 0 THEN 12 ELSE dt.h % 12,
     M |-> dt.m,
     p |-> IF dt.h < 12 THEN "AM" ELSE "PM"]

\* mutation: the fallback prints the string after the substitution
FormatDate_FallbackSubstituted(date) ==
    IF Parses(ReplaceZ(date)) THEN <<Strftime(ReplaceZ(date)[1])>> ELSE ReplaceZ(date)

\* the try/except around the parse: any failure falls back to the raw string
FormatDate(date) ==
    IF Parses(ReplaceZ(date)) THEN <<Strftime(ReplaceZ(date)[1])>> ELSE date

----------------------------------------------------------------------------
\* The responses explored: every field the code reads is absent or present,
\* independently, at every nesting level.

\* a mapping in which key k is absent, or present with a value of S
Opt(k, S) == {EmptyDict} \cup {k :> v : v \in S}

SeqsUpTo(S, n) == UNION {[1..k -> S] : k \in 0..n}

TeamSet == Opt("displayName", {"Chiefs", "Ravens"})
CompetitorSet ==
    {h @@ t : h \in Opt("homeAway", {"home", "away"}), t \in Opt("team", TeamSet)}
CompetitorLists == SeqsUpTo(CompetitorSet, MaxCompetitors)
CompetitionSet == Opt("competitors", CompetitorLists)
CompetitionsField == Opt("competitions", {<<>>} \cup {<<c>> : c \in CompetitionSet})

DateStrings ==
    { <<Iso(17, 0), Z>>, <<Iso(0, 15), Z>>, <<Iso(12, 30)>>, <<Iso(17, 0), Offset, Z>>,
      <<NotADate>>, <<NotADate, Z>> }
StatusSet == Opt("type", Opt("description", {"Scheduled"}))
FieldCombos ==
    {i @@ n @@ d @@ s : i \in Opt("id", {"402"}), n \in Opt("name", {"BUF at MIA"}),
                        d \in Opt("date", DateStrings), s \in Opt("status", StatusSet)}

FullCompetitors ==
    << ("homeAway" :> "home") @@ ("team" :> ("displayName" :> "Chiefs")),
       ("homeAway" :> "away") @@ ("team" :> ("displayName" :> "Ravens")) >>
FullCompetitions == "competitions" :> << "competitors" :> FullCompetitors >>
FullFields ==
    ("id" :> "401") @@ ("name" :> "BAL at KC") @@ ("date" :> <<Iso(17, 0), Z>>)
        @@ ("status" :> ("type" :> ("description" :> "Final")))
FullEvent == FullFields @@ FullCompetitions

\* events varied in their scalar fields, and events varied in their competitions
EventSet ==
    {f @@ FullCompetitions : f \in FieldCombos}
        \cup {FullFields @@ c : c \in CompetitionsField}
        \cup {EmptyDict}

\* the neighbours of the varied event: the fully populated and the minimal event
RepEvents == {FullEvent, EmptyDict}

\* event sequences of up to MaxEvents events, one of them varied freely
EventLists ==
    {<<>>} \cup
    UNION {{[i \in 1..k |-> IF i = p THEN e ELSE r] : e \in EventSet, r \in RepEvents} :
              <<k, p>> \in {kp \in (1..MaxEvents) \X (1..MaxEvents) : kp[2] <= kp[1]}}

TopSet ==
    {s @@ w : s \in Opt("season", Opt("year", {"2024"})),
              w \in Opt("week", Opt("number", {"1"}))}
FullTop == ("season" :> ("year" :> "2024")) @@ ("week" :> ("number" :> "1"))

Responses ==
    {FullTop @@ ("events" :> L) : L \in EventLists}
        \cup {t @@ ("events" :> L) : t \in TopSet, L \in {<<>>, <<FullEvent>>, <<EmptyDict>>}}
        \cup TopSet

----------------------------------------------------------------------------
\* Printed lines.

Line(l) == [line |-> l]

SummaryLines == {"NO_GAMES_IN_RESPONSE", "SCHEDULE_BANNER", "NO_GAMES_THIS_WEEK",
                 "Game", "ID", "Matchup", "Date", "Status"}
InspectLines == {"INSPECTION_BANNER", "TopLevelKeys", "EventKeys", "CompetitionKeys",
                 "CompetitorKeys", "TeamKeys"}

\* mutation: the sides are taken by position, home first
FirstTagged_ByPosition(competitors, side) ==
    IF Len(competitors) < 2 THEN EmptyDict
    ELSE IF side = "home" THEN competitors[1] ELSE competitors[2]

\* next((c for c in competitors if c.get('homeAway') == side), {})
FirstTagged(competitors, side) ==
    LET tagged == {i \in 1..Len(competitors) :
                      /\ Has(competitors[i], "homeAway")
                      /\ competitors[i]["homeAway"] = side}
    IN  IF tagged = {} THEN EmptyDict
        ELSE competitors[CHOOSE i \in tagged : \A j \in tagged : i <= j]

\* event.get('id', 'Unknown')
GameId(event) == Get(event, "id", "Unknown")

\* event.get('date', 'Unknown date')
EventDate(event) == Get(event, "date", UnknownDate)

\* mutation: the last lookup has no default, and None is printed
StatusDescription_NoDefault(event) ==
    Get(Get(Get(event, "status", EmptyDict), "type", EmptyDict), "description", "None")

\* event.get('status', {}).get('type', {}).get('description', 'Unknown')
StatusDescription(event) ==
    Get(Get(Get(event, "status", EmptyDict), "type", EmptyDict), "description", "Unknown")

\* competitor.get('team', {}).get('displayName', 'Unknown')
TeamName(competitor) ==
    Get(Get(competitor, "team", EmptyDict), "displayName", "Unknown")

\* the competitors the loop looks at: those of the first competition, if any
Competitors(event) ==
    LET competitions == Get(event, "competitions", <<>>)
    IN  IF Len(competitions) > 0
        THEN Get(competitions[1], "competitors", <<>>)
        ELSE <<>>

\* One iteration of the loop of print_game_summary: the lines printed for
\* `event`, numbered `n`.
EventBlock(event, n) ==
    LET formatted_date == FormatDate(EventDate(event))
        competitors == Competitors(event)
        home_team == FirstTagged(competitors, "home")
        away_team == FirstTagged(competitors, "away")
    IN  IF Len(competitors) >= 2
        THEN << [line |-> "Game", n |-> n],
                [line |-> "ID", v |-> GameId(event)],
                [line |-> "Matchup", away |-> TeamName(away_team),
                                     home |-> TeamName(home_team)],
                [line |-> "Date", v |-> formatted_date],
                [line |-> "Status", v |-> StatusDescription(event)] >>
        ELSE << >>

\* the banner of print_game_summary
ScheduleBanner(d) ==
    [line |-> "SCHEDULE_BANNER",
     season |-> Get(Get(d, "season", EmptyDict), "year", "Unknown"),
     week |-> Get(Get(d, "week", EmptyDict), "number", "Unknown")]

----------------------------------------------------------------------------
\* Control flow.

Entries == {"main", "print_game_summary", "inspect_data_structure"}

Call(f) == [fn |-> f, ev |-> "call"]
Ret(f) == [fn |-> f, ev |-> "return"]
Raised(f) == [fn |-> f, ev |-> "raise"]

\* mutation: main goes from the summary to the completion banner
After_SkipInspect(f) ==
    IF entry # "main" THEN "done" ELSE "complete"

\* where control goes when stage f returns
After(f) ==
    IF entry # "main" THEN "done"
    ELSE CASE f = "print_game_summary" -> "inspect"
           [] f = "inspect_data_structure" -> "complete"

\* arguments of a direct call of print_game_summary or inspect_data_structure
DirectInputs ==
    TopSet \cup {"events" :> <<>>, "events" :> <<FullEvent, EmptyDict>>}

\* main starts with nothing fetched; a direct call starts with its argument
Init ==
    /\ entry \in Entries
    /\ pc = CASE entry = "main" -> "main"
              [] entry = "print_game_summary" -> "summary"
              [] entry = "inspect_data_structure" -> "inspect"
    /\ data \in CASE entry = "main" -> {None}
                  [] entry = "print_game_summary" -> {None} \cup {Dict(d) : d \in DirectInputs}
                  [] entry = "inspect_data_structure" -> {Dict(d) : d \in DirectInputs}
    /\ out = <<>>
    /\ idx = 0
    /\ node = EmptyDict
    /\ trace = <<>>
    /\ exc = "none"

\* main, lines 181-187, with fetch_nfl_scoreboard: one GET; a RequestException
\* is caught and None returned, otherwise the parsed body is returned.
MainFetch ==
    /\ pc = "main"
    /\ \/ /\ data' = None
          /\ out' = out \o <<Line("TITLE"), Line("FETCHING"), Line("FETCH_ERROR")>>
       \/ /\ data' \in {Dict(d) : d \in Responses}
          /\ out' = out \o <<Line("TITLE"), Line("FETCHING"), Line("FETCH_OK")>>
    /\ trace' = trace \o <<Call("fetch_nfl_scoreboard"), Ret("fetch_nfl_scoreboard")>>
    /\ pc' = "main_check"
    /\ UNCHANGED <<entry, idx, node, exc>>

\* mutation: the check is `if data is None`
MainCheck_NoneOnly ==
    /\ pc = "main_check"
    /\ IF data.tag = "None"
       THEN /\ out' = Append(out, Line("FAILED_TO_FETCH"))
            /\ pc' = "done"
       ELSE /\ out' = out
            /\ pc' = "save"
    /\ UNCHANGED <<entry, data, idx, node, trace, exc>>

\* main, lines 189-191
MainCheck ==
    /\ pc = "main_check"
    /\ IF Falsy(data)
       THEN /\ out' = Append(out, Line("FAILED_TO_FETCH"))
            /\ pc' = "done"
       ELSE /\ out' = out
            /\ pc' = "save"
    /\ UNCHANGED <<entry, data, idx, node, trace, exc>>

\* main, lines 193-196, with save_raw_response: mkdir and open may fail with
\* an OSError, which nothing catches.
Save ==
    /\ pc = "save"
    /\ \/ /\ out' = Append(out, Line("SAVED"))
          /\ trace' = trace \o <<Call("save_raw_response"), Ret("save_raw_response")>>
          /\ pc' = "summary"
          /\ exc' = exc
       \/ /\ out' = out
          /\ trace' = trace \o <<Call("save_raw_response"), Raised("save_raw_response")>>
          /\ pc' = "raised"
          /\ exc' = "OSError"
    /\ UNCHANGED <<entry, data, idx, node>>

\* mutation: the guard is `not data` alone
NoEventsKey_FalsyOnly(x) == Falsy(x)

\* `not data or 'events' not in data`, line 86
NoEventsKey(x) == Falsy(x) \/ ~Has(x.val, "events")

\* mutation: the empty case is handled before the banner is printed
EmptyWeekLines_NoBanner(d) == <<Line("NO_GAMES_THIS_WEEK")>>

\* what lines 94-103 print for an empty `events`: the banner, then the notice
EmptyWeekLines(d) == <<ScheduleBanner(d), Line("NO_GAMES_THIS_WEEK")>>

\* print_game_summary, lines 86-103: the guard, the banner, the empty case
SummaryBegin ==
    /\ pc = "summary"
    /\ IF NoEventsKey(data)
       THEN /\ out' = Append(out, Line("NO_GAMES_IN_RESPONSE"))
            /\ trace' = trace \o <<Call("print_game_summary"), Ret("print_game_summary")>>
            /\ pc' = After("print_game_summary")
            /\ idx' = idx
       ELSE IF Len(Get(data.val, "events", <<>>)) = 0
       THEN /\ out' = out \o EmptyWeekLines(data.val)
            /\ trace' = trace \o <<Call("print_game_summary"), Ret("print_game_summary")>>
            /\ pc' = After("print_game_summary")
            /\ idx' = idx
       ELSE /\ out' = Append(out, ScheduleBanner(data.val))
            /\ trace' = Append(trace, Call("print_game_summary"))
            /\ pc' = "summary_loop"
            /\ idx' = 1
    /\ UNCHANGED <<entry, data, node, exc>>

\* mutation: the counter advances only when a block is printed
SummaryEvent_CountsBlocks ==
    /\ pc = "summary_loop"
    /\ idx <= Len(data.val["events"])
    /\ out' = out \o EventBlock(data.val["events"][idx],
                                1 + Cardinality({p \in 1..Len(out) : out[p].line = "Game"}))
    /\ idx' = idx + 1
    /\ IF idx = Len(data.val["events"])
       THEN /\ trace' = Append(trace, Ret("print_game_summary"))
            /\ pc' = After("print_game_summary")
       ELSE /\ trace' = trace
            /\ pc' = pc
    /\ UNCHANGED <<entry, data, node, exc>>

\* print_game_summary, lines 105-134: one iteration of the loop; the
\* function returns after the last one
SummaryEvent ==
    /\ pc = "summary_loop"
    /\ idx <= Len(data.val["events"])
    /\ out' = out \o EventBlock(data.val["events"][idx], idx)
    /\ idx' = idx + 1
    /\ IF idx = Len(data.val["events"])
       THEN /\ trace' = Append(trace, Ret("print_game_summary"))
            /\ pc' = After("print_game_summary")
       ELSE /\ trace' = trace
            /\ pc' = pc
    /\ UNCHANGED <<entry, data, node, exc>>

\* a subscript of inspect_data_structure that fails: the exception leaves
\* the function (and main, which catches nothing)
InspectRaises(e) ==
    /\ pc' = "raised"
    /\ exc' = e
    /\ trace' = Append(trace, Raised("inspect_data_structure"))
    /\ UNCHANGED <<out, node>>

\* inspect_data_structure prints the keys of `obj` as line `l`, then either
\* descends (the guard `deeper` holds) or returns
InspectPrints(l, obj, deeper, next) ==
    /\ out' = Append(out, [line |-> l, keys |-> DOMAIN obj])
    /\ node' = obj
    /\ exc' = exc
    /\ IF deeper
       THEN /\ pc' = next
            /\ trace' = trace
       ELSE /\ pc' = After("inspect_data_structure")
            /\ trace' = Append(trace, Ret("inspect_data_structure"))

\* inspect_data_structure, lines 145-155
InspectTop ==
    /\ pc = "inspect"
    /\ out' = out \o <<Line("INSPECTION_BANNER"),
                       [line |-> "TopLevelKeys", keys |-> DOMAIN data.val]>>
    /\ IF HasNonEmpty(data.val, "events")
       THEN /\ pc' = "inspect_event"
            /\ trace' = Append(trace, Call("inspect_data_structure"))
       ELSE /\ pc' = After("inspect_data_structure")
            /\ trace' = trace \o <<Call("inspect_data_structure"),
                                   Ret("inspect_data_structure")>>
    /\ UNCHANGED <<entry, data, idx, node, exc>>

\* inspect_data_structure, lines 156-161: event = data['events'][0]
InspectEvent ==
    /\ pc = "inspect_event"
    /\ IF ~Has(data.val, "events") THEN InspectRaises("KeyError")
       ELSE IF Len(data.val["events"]) = 0 THEN InspectRaises("IndexError")
       ELSE InspectPrints("EventKeys", data.val["events"][1],
                          HasNonEmpty(data.val["events"][1], "competitions"),
                          "inspect_competition")
    /\ UNCHANGED <<entry, data, idx>>

\* inspect_data_structure, lines 162-166: comp = event['competitions'][0]
InspectCompetition ==
    /\ pc = "inspect_competition"
    /\ IF ~Has(node, "competitions") THEN InspectRaises("KeyError")
       ELSE IF Len(node["competitions"]) = 0 THEN InspectRaises("IndexError")
       ELSE InspectPrints("CompetitionKeys", node["competitions"][1],
                          HasNonEmpty(node["competitions"][1], "competitors"),
                          "inspect_competitor")
    /\ UNCHANGED <<entry, data, idx>>

\* inspect_data_structure, lines 167-171: competitor = comp['competitors'][0]
InspectCompetitor ==
    /\ pc = "inspect_competitor"
    /\ IF ~Has(node, "competitors") THEN InspectRaises("KeyError")
       ELSE IF Len(node["competitors"]) = 0 THEN InspectRaises("IndexError")
       ELSE InspectPrints("CompetitorKeys", node["competitors"][1],
                          Has(node["competitors"][1], "team"),
                          "inspect_team")
    /\ UNCHANGED <<entry, data, idx>>

\* inspect_data_structure, lines 172-174: team = competitor['team']
InspectTeam ==
    /\ pc = "inspect_team"
    /\ IF ~Has(node, "team") THEN InspectRaises("KeyError")
       ELSE InspectPrints("TeamKeys", node["team"], FALSE, "inspect_team")
    /\ UNCHANGED <<entry, data, idx>>

\* main, lines 204-212
MainComplete ==
    /\ pc = "complete"
    /\ out' = out \o <<Line("EXPLORATION_COMPLETE"), Line("NEXT_STEPS")>>
    /\ pc' = "done"
    /\ UNCHANGED <<entry, data, idx, node, trace, exc>>

Next ==
    \/ MainFetch
    \/ MainCheck
    \/ Save
    \/ SummaryBegin
    \/ SummaryEvent
    \/ InspectTop
    \/ InspectEvent
    \/ InspectCompetition
    \/ InspectCompetitor
    \/ InspectTeam
    \/ MainComplete

Spec == Init /\ [][Next]_vars

----------------------------------------------------------------------------
\* Reading the run.

Printed(l) == \E i \in 1..Len(out) : out[i].line = l
Returned(f) == \E i \in 1..Len(trace) : trace[i].fn = f /\ trace[i].ev = "return"
RaisedIn(f) == \E i \in 1..Len(trace) : trace[i].fn = f /\ trace[i].ev = "raise"
Entered(f) == \E i \in 1..Len(trace) : trace[i].fn = f
IsSummaryLine(r) == r.line \in SummaryLines
IsInspectLine(r) == r.line \in InspectLines
SummaryOut == SelectSeq(out, IsSummaryLine)
InspectOut == SelectSeq(out, IsInspectLine)
\* the response is None or has no `events` key
LacksEvents == data.tag = "None" \/ "events" \notin DOMAIN data.val
Events == IF LacksEvents THEN <<>> ELSE data.val["events"]
LaterStages == {"save_raw_response", "print_game_summary", "inspect_data_structure"}

----------------------------------------------------------------------------
\* C1: in main, when the fetch returned None or an empty result, the failure
\* notice is printed, none of save_raw_response, print_game_summary and
\* inspect_data_structure is invoked, and main returns normally; the later
\* stages run only after a non-empty result.
C1_FailedFetchStopsPipeline ==
    entry = "main" =>
        /\ (pc \notin {"main", "main_check"} /\ Falsy(data)) =>
              /\ pc = "done"
              /\ exc = "none"
              /\ Len(out) = 4 /\ out[4].line = "FAILED_TO_FETCH"
              /\ \A f \in LaterStages : ~Entered(f)
        /\ (\E f \in LaterStages : Entered(f)) => ~Falsy(data)
        /\ Printed("FAILED_TO_FETCH") => Falsy(data)

C1_Witness ==
    /\ entry = "main" /\ pc = "done"
    /\ data.tag = "None"
    /\ Printed("FETCH_ERROR") /\ Printed("FAILED_TO_FETCH")

\* C2: in a run of main that fetched a non-empty result and raised nothing,
\* the stages are called once each in the order fetch, save, summary,
\* inspect, each returning before the next is called, their output appears
\* in that order, and the completion banner is printed last, only after all
\* of them returned.
StageOrder ==
    << Call("fetch_nfl_scoreboard"), Ret("fetch_nfl_scoreboard"),
       Call("save_raw_response"), Ret("save_raw_response"),
       Call("print_game_summary"), Ret("print_game_summary"),
       Call("inspect_data_structure"), Ret("inspect_data_structure") >>

Rank(l) ==
    CASE l \in {"TITLE", "FETCHING", "FETCH_OK", "FETCH_ERROR", "FAILED_TO_FETCH"} -> 0
      [] l = "SAVED" -> 1
      [] l \in SummaryLines -> 2
      [] l \in InspectLines -> 3
      [] l \in {"EXPLORATION_COMPLETE", "NEXT_STEPS"} -> 4

C2_StagesInOrder ==
    entry = "main" =>
        /\ exc = "none" => /\ Len(trace) <= Len(StageOrder)
                           /\ \A i \in 1..Len(trace) : trace[i] = StageOrder[i]
        /\ \A i \in 1..(Len(out) - 1) : Rank(out[i].line) <= Rank(out[i + 1].line)
        /\ Printed("EXPLORATION_COMPLETE") =>
              /\ trace = StageOrder
              /\ Cardinality({i \in 1..Len(out) : out[i].line = "EXPLORATION_COMPLETE"}) = 1
        /\ (pc = "done" /\ ~Falsy(data)) =>
              /\ trace = StageOrder
              /\ out[Len(out) - 1].line = "EXPLORATION_COMPLETE"

C2_Witness ==
    /\ entry = "main" /\ pc = "done"
    /\ Printed("EXPLORATION_COMPLETE")
    /\ Printed("Game") /\ Printed("TeamKeys")

\* C3: for a response without an `events` key, print_game_summary prints
\* the "no games in response" notice and nothing else (no banner, no game
\* block) and returns without raising.
C3_NoEventsKeyOnlyNotice ==
    LacksEvents =>
        /\ ~RaisedIn("print_game_summary")
        /\ pc # "summary_loop"
        /\ Len(SummaryOut) <= 1
        /\ Entered("print_game_summary") =>
              /\ Returned("print_game_summary")
              /\ Len(SummaryOut) = 1
              /\ SummaryOut[1].line = "NO_GAMES_IN_RESPONSE"

C3_Witness ==
    /\ Returned("print_game_summary")
    /\ LacksEvents /\ ~Falsy(data)
    /\ Len(SummaryOut) = 1 /\ SummaryOut[1].line = "NO_GAMES_IN_RESPONSE"

\* C4 as claimed: the season/week banner is printed only when `events` is
\* present and non-empty.
C4_BannerOnlyWithGames ==
    Printed("SCHEDULE_BANNER") => HasNonEmpty(data.val, "events")

\* C4 as amended: when `events` is present and empty, print_game_summary
\* prints the season/week banner, then the "no games this week" notice,
\* nothing else, and returns without raising; the banner is printed exactly
\* when the response is non-empty and has an `events` key, empty or not.
C4_EmptyEventsBannerThenNotice ==
    /\ Printed("SCHEDULE_BANNER") => ~LacksEvents
    /\ (Returned("print_game_summary") /\ ~LacksEvents) =>
          /\ SummaryOut[1].line = "SCHEDULE_BANNER"
          /\ Cardinality({i \in 1..Len(out) : out[i].line = "SCHEDULE_BANNER"}) = 1
    /\ (~LacksEvents /\ Len(Events) = 0) =>
          /\ ~RaisedIn("print_game_summary")
          /\ pc # "summary_loop"
          /\ Entered("print_game_summary") =>
                /\ Returned("print_game_summary")
                /\ Len(SummaryOut) = 2
                /\ SummaryOut[1].line = "SCHEDULE_BANNER"
                /\ SummaryOut[2].line = "NO_GAMES_THIS_WEEK"

C4_Witness ==
    /\ Returned("print_game_summary")
    /\ ~LacksEvents /\ Len(Events) = 0
    /\ Len(SummaryOut) = 2
    /\ SummaryOut[1].line = "SCHEDULE_BANNER" /\ SummaryOut[1].week = "1"
    /\ SummaryOut[2].line = "NO_GAMES_THIS_WEEK"

\* C5 as claimed: an event without a competition entry, or whose first
\* competition has fewer than two competitors, still gets its block (game
\* index, id, date and status lines), only the matchup line being omitted.
GameLineAt(p, i) == SummaryOut[p].line = "Game" /\ SummaryOut[p].n = i

C5_BlockWithoutMatchup ==
    Returned("print_game_summary") =>
        \A i \in 1..Len(Events) :
            Len(Competitors(Events[i])) < 2 =>
                \E p \in 1..Len(SummaryOut) :
                    /\ GameLineAt(p, i)
                    /\ p + 3 <= Len(SummaryOut)
                    /\ SummaryOut[p + 1].line = "ID"
                    /\ SummaryOut[p + 2].line = "Date"
                    /\ SummaryOut[p + 3].line = "Status"

\* the positions of the "Game N:" lines in the summary's output
GameLines == {p \in 1..Len(SummaryOut) : SummaryOut[p].line = "Game"}

\* every "Game N:" line opens a block of five lines about event N
BlocksWellFormed ==
    \A p \in GameLines :
        /\ SummaryOut[p].n \in 1..Len(Events)
        /\ p + 4 <= Len(SummaryOut)
        /\ SummaryOut[p + 1].line = "ID"
        /\ SummaryOut[p + 2].line = "Matchup"
        /\ SummaryOut[p + 3].line = "Date"
        /\ SummaryOut[p + 4].line = "Status"

\* C6: a missing field is never an error in print_game_summary: whatever
\* subset of season.year, week.number and, per event, id, date, status,
\* status.type, status.type.description, team and team.displayName is
\* absent, the function does not raise, runs through every event, and each
\* value it prints for an absent field is the placeholder "Unknown"
\* ("Unknown date" for the date).
C6_MissingFieldsArePlaceholders ==
    /\ ~RaisedIn("print_game_summary")
    /\ pc = "summary_loop" => idx \in 1..Len(Events)
    /\ (Returned("print_game_summary") /\ Len(Events) > 0) => idx = Len(Events) + 1
    /\ BlocksWellFormed
    /\ \A p \in 1..Len(SummaryOut) :
          SummaryOut[p].line = "SCHEDULE_BANNER" =>
              /\ ~(Has(data.val, "season") /\ Has(data.val["season"], "year")) =>
                    SummaryOut[p].season = "Unknown"
              /\ ~(Has(data.val, "week") /\ Has(data.val["week"], "number")) =>
                    SummaryOut[p].week = "Unknown"
    /\ \A p \in GameLines :
          LET e == Events[SummaryOut[p].n]
              home == FirstTagged(Competitors(e), "home")
              away == FirstTagged(Competitors(e), "away")
              named(c) == Has(c, "team") /\ Has(c["team"], "displayName")
          IN  /\ ~Has(e, "id") => SummaryOut[p + 1].v = "Unknown"
              /\ ~named(home) => SummaryOut[p + 2].home = "Unknown"
              /\ ~named(away) => SummaryOut[p + 2].away = "Unknown"
              /\ ~Has(e, "date") =>
                    /\ Len(SummaryOut[p + 3].v) = 1
                    /\ SummaryOut[p + 3].v[1].t = "Unknown date"
              /\ ~(/\ Has(e, "status")
                   /\ Has(e["status"], "type")
                   /\ Has(e["status"]["type"], "description")) =>
                    SummaryOut[p + 4].v = "Unknown"

C6_Witness ==
    /\ Returned("print_game_summary")
    /\ \E p \in GameLines :
          LET e == Events[SummaryOut[p].n]
          IN  /\ ~Has(e, "id") /\ ~Has(e, "date") /\ ~Has(e, "name")
              /\ Has(e, "status") /\ ~Has(e["status"], "type")
              /\ SummaryOut[p + 1].v = "Unknown"
              /\ SummaryOut[p + 3].v[1].t = "Unknown date"
              /\ SummaryOut[p + 4].v = "Unknown"

\* the pieces of a printed date, compared piece by piece
SameText(a, b) ==
    /\ Len(a) = Len(b)
    /\ \A i \in 1..Len(a) :
          /\ a[i].t = b[i].t
          /\ a[i].t = "iso" => (a[i].h = b[i].h /\ a[i].m = b[i].m)

\* C7: a date that cannot be parsed once its Z is replaced by +00:00 is
\* printed as the original string, with its Z if it has one; the failure
\* does not leave print_game_summary and the events after it are processed.
C7_UnparseableDateVerbatim ==
    /\ ~RaisedIn("print_game_summary")
    /\ BlocksWellFormed
    /\ \A p \in GameLines :
          LET e == Events[SummaryOut[p].n]
          IN  (Has(e, "date") /\ ~Parses(ReplaceZ(e["date"]))) =>
                  SameText(SummaryOut[p + 3].v, e["date"])
    /\ Returned("print_game_summary") =>
          \A i \in 1..Len(Events) :
              Len(Competitors(Events[i])) >= 2 =>
                  \E p \in GameLines : SummaryOut[p].n = i

C7_Witness ==
    /\ Returned("print_game_summary")
    /\ Len(Events) = 2
    /\ Has(Events[1], "date") /\ SameText(Events[1]["date"], <<NotADate, Z>>)
    /\ \E p, q \in GameLines :
          /\ SummaryOut[p].n = 1 /\ SummaryOut[q].n = 2
          /\ SameText(SummaryOut[p + 3].v, <<NotADate, Z>>)

\* the levels inspect_data_structure can reach, top down
Levels ==
    << "INSPECTION_BANNER", "TopLevelKeys", "EventKeys", "CompetitionKeys",
       "CompetitorKeys", "TeamKeys" >>

\* the objects along the path of first elements, as far as they exist
FirstOf(d, k) == IF Has(d, k) /\ Len(d[k]) > 0 THEN <<d[k][1]>> ELSE <<>>
PathObjects ==
    LET ev == FirstOf(data.val, "events")
        comp == IF ev = <<>> THEN <<>> ELSE FirstOf(ev[1], "competitions")
        competitor == IF comp = <<>> THEN <<>> ELSE FirstOf(comp[1], "competitors")
        team == IF competitor = <<>> \/ ~Has(competitor[1], "team")
                THEN <<>> ELSE <<competitor[1]["team"]>>
    IN  <<data.val>> \o ev \o comp \o competitor \o team

\* C8: inspect_data_structure never raises when the first event has no
\* competitions, the first competition has no or one competitor, or the
\* first competitor has no team; it prints the key names of the levels in
\* the order top-level, event, competition, competitor, team, a level only
\* after every level above it, and stops at the first absent or empty
\* parent, so that exactly the levels that exist are printed.
C8_InspectDescendsSafely ==
    /\ ~RaisedIn("inspect_data_structure")
    /\ Len(InspectOut) <= Len(Levels)
    /\ \A i \in 1..Len(InspectOut) : InspectOut[i].line = Levels[i]
    /\ Len(InspectOut) > 0 =>
          /\ Len(InspectOut) <= 1 + Len(PathObjects)
          /\ \A i \in 2..Len(InspectOut) : InspectOut[i].keys = DOMAIN PathObjects[i - 1]
    /\ Returned("inspect_data_structure") => Len(InspectOut) = 1 + Len(PathObjects)

C8_Witness ==
    /\ Returned("inspect_data_structure")
    /\ Len(InspectOut) = 4
    /\ Has(data.val["events"][1], "competitions")
    /\ Has(data.val["events"][1]["competitions"][1], "competitors")
    /\ Len(data.val["events"][1]["competitions"][1]["competitors"]) = 0

\* C9: when the first competition has at least two competitors the matchup
\* line is "<away> @ <home>", each side being the displayName of the team of
\* the first competitor, in sequence order, tagged with that side; a side
\* that no competitor is tagged with, or whose competitor lacks a team or a
\* displayName, is printed as "Unknown", whatever the other side is.
SideName(cs, side) ==
    LET tagged == {i \in 1..Len(cs) : Has(cs[i], "homeAway") /\ cs[i]["homeAway"] = side}
    IN  IF tagged = {} THEN "Unknown"
        ELSE LET c == cs[CHOOSE i \in tagged : \A j \in tagged : i <= j]
             IN  IF Has(c, "team") /\ Has(c["team"], "displayName")
                 THEN c["team"]["displayName"]
                 ELSE "Unknown"

C9_MatchupAwayAtHome ==
    /\ BlocksWellFormed
    /\ \A p \in GameLines :
          LET cs == Competitors(Events[SummaryOut[p].n])
          IN  /\ Len(cs) >= 2
              /\ SummaryOut[p + 2].home = SideName(cs, "home")
              /\ SummaryOut[p + 2].away = SideName(cs, "away")
    /\ Returned("print_game_summary") =>
          \A i \in 1..Len(Events) :
              Len(Competitors(Events[i])) >= 2 => \E p \in GameLines : SummaryOut[p].n = i

C9_Witness ==
    /\ Returned("print_game_summary")
    /\ \E p \in GameLines :
          LET cs == Competitors(Events[SummaryOut[p].n])
          IN  /\ Len(cs) = 2
              /\ \A i \in 1..2 : Has(cs[i], "homeAway") /\ cs[i]["homeAway"] = "home"
              /\ TeamName(cs[1]) = "Ravens" /\ TeamName(cs[2]) = "Chiefs"
              /\ SummaryOut[p + 2].home = "Ravens"
              /\ SummaryOut[p + 2].away = "Unknown"

\* C10: the events are visited in response order, each yields at most one
\* block, the blocks come in the order of their events, and the N of a
\* "Game N:" line is the 1-based position of its event among all events,
\* those without a block included.
C10_GameNumbersArePositions ==
    /\ BlocksWellFormed
    /\ \A p, q \in GameLines : p < q => SummaryOut[p].n < SummaryOut[q].n
    /\ \A p \in GameLines :
          LET i == SummaryOut[p].n
          IN  /\ i < idx
              /\ Len(Competitors(Events[i])) >= 2
              /\ SummaryOut[p + 1].v = GameId(Events[i])
    /\ \A i \in 1..Len(Events) :
          (i < idx /\ Len(Competitors(Events[i])) >= 2) =>
              \E p \in GameLines : SummaryOut[p].n = i

C10_Witness ==
    /\ Returned("print_game_summary")
    /\ Len(Events) = 2
    /\ Len(Competitors(Events[1])) < 2
    /\ Cardinality(GameLines) = 1
    /\ \E p \in GameLines : SummaryOut[p].n = 2 /\ SummaryOut[p + 1].v = "401"

====
